---- MODULE Spec2Model ----
(***************************************************************************)
(* A model of ribeiro-social-sync.py: one-way mirroring of the toots of a  *)
(* Mastodon account to Twitter.  One invocation of main() takes the lock   *)
(* file, constructs a Twoot (loading and re-saving the pickled data file), *)
(* fetches the new toots, walks them oldest first through                  *)
(* create_tweet_from_toot and saves the new twoots (toot id / tweet id     *)
(* pairs) at the end of the run.                                           *)
(*                                                                         *)
(* The two platforms are the environment: what account_statuses returns,   *)
(* whether a statuses.update / statuses.retweet / media.upload call raises *)
(* and which id Twitter hands back are nondeterministic choices.           *)
(***************************************************************************)
EXTENDS Integers, Sequences, FiniteSets, TLC

\* ------------------------------------------------------------------ bounds

\* toot ids of the source account: 1..MaxTootId (0 stands for None / False)
MaxTootId == 3
\* the longest list account_statuses returns
MaxBatch == 2
\* invocations of main() in one behaviour
MaxRuns == 2
\* config["max_twoots"], the retention limit of the profile
max_twoots == 2
\* the most media attachments of one toot
MaxMedia == 2
\* the longest toot_reduced (the rendered text without its URL), in characters
MaxReducedLen == 256
\* the longest URL in a text, in characters
MaxLinkLen == 24

VARIABLES
    disk,         \* the pickled data file of the profile
    lock,         \* lockfile.lock is flock'ed by a running invocation
    pc,           \* where the invocation is: "idle", "get_new_toots", "toots2tweets"
    runs,         \* invocations started so far
    dry_run,      \* dry_run of run(): --dry-run, unless setup mode switched it off
    update,       \* --update
    data,         \* self.data, loaded by __init__
    twoots,       \* self.twoots, the twoots of this run, newest first
    toots,        \* the list get_new_toots returned to run()
    i,            \* toots[i] is the next toot of the reversed() loop; 0: loop over
    new_last_id,  \* r[0]["id"] of the fetch, 0 when r is empty or the call raised
    fetched,      \* what account_statuses did: "no" (not yet), "raised", "empty", "toots",
                  \* or "update_raised" (toots, and then __update_last_id raised)
    calls,        \* the Twitter calls of this run, in order
    next_id,      \* the next id Twitter hands out
    pre,          \* the data file as it was when this invocation started
    result,       \* how the last invocation ended: "none", "running", "returned", "raised",
                  \* or "logged" (main() caught an IOError and returned)
    setup,        \* --setup
    contender,    \* an invocation started while another one runs: "none", "refused", "inside"
    text          \* a rendered toot text and what the truncation step made of it

vars == <<disk, lock, pc, runs, dry_run, update, data, twoots, toots, i,
          new_last_id, fetched, calls, next_id, pre, result, setup, contender, text>>

\* ------------------------------------------------------------- sequences

RECURSIVE SeqsUpTo(_, _)
\* all sequences over S of length at most n
SeqsUpTo(S, n) ==
    IF n = 0 THEN {<<>>}
    ELSE LET shorter == SeqsUpTo(S, n - 1)
         IN  shorter \cup {Append(s, x) : s \in {q \in shorter : Len(q) = n - 1}, x \in S}

\* s[:n] of Python
FirstN(s, n) == SubSeq(s, 1, IF Len(s) < n THEN Len(s) ELSE n)

\* [t["toot_id"] for t in s] as a set
TootIdsOf(s) == {s[k].toot_id : k \in 1..Len(s)}

\* no two entries of s have the same toot_id
DistinctToots(s) == \A a, b \in 1..Len(s) : s[a].toot_id = s[b].toot_id => a = b

\* ------------------------------------------------------------ the source

TootIds == 1..MaxTootId

\* Twitter's ids are disjoint from the toot ids
FirstTweetId == MaxTootId + 1

\* A toot dict, with the keys create_tweet_from_toot reads.  url: the rendered
\* content holds an http(s) URL; media: len(toot["media_attachments"]).
\* Replies and boosts point at older toots.  Keys a path never reads are
\* fixed: a reply to another account and a boost return before the content
\* and the attachments are looked at; the id of another account's toot is
\* no toot id of this account (0).
Toots ==
    { t \in [id : TootIds,
             in_reply_to_account_id : {"none", "me", "other"},
             in_reply_to_id : 0..MaxTootId,
             reblog : 0..MaxTootId,
             url : BOOLEAN,
             media : 0..MaxMedia] :
        /\ t.in_reply_to_id < t.id
        /\ t.reblog < t.id
        /\ (t.in_reply_to_account_id = "me") <=> (t.in_reply_to_id # 0)
        /\ (t.in_reply_to_account_id = "other" \/ t.reblog # 0)
              => (t.url /\ t.media = 0)
        /\ (t.in_reply_to_account_id = "me" /\ t.reblog # 0)
              => t.in_reply_to_id = t.reblog }

\* what account_statuses can return: any list of toots, newest first by
\* position only (an id may repeat, in a list or from one list to the next)
Batches == SeqsUpTo(Toots, MaxBatch)

\* ---------------------------------------------------------- the data file

\* {"twoots": []}: the data of a profile that has no data file
NoData ==
    [last_toot |-> 0, last_tweet |-> 0, twoots |-> <<>>,
     mastodon_account |-> FALSE, twitter_account |-> FALSE]

\* the markers and the mapping history of a data record
Persisted(d) == [last_toot |-> d.last_toot, last_tweet |-> d.last_tweet, twoots |-> d.twoots]

\* the markers and the mapping history the data file holds, as an observer
\* of the file reads them (a profile without a file holds none)
OnDisk(d) == Persisted(d.data)

\* a twoot
Twoot(toot_id, tweet_id) == [toot_id |-> toot_id, tweet_id |-> tweet_id]

\* pickle.load of the data file, or the initial data when there is no file
LoadData(d) == IF d.isfile THEN d.data ELSE NoData

\* pickle.dump of data to the data file
DumpData(dat) == [isfile |-> TRUE, data |-> dat]

\* __update_last_id: read the file, set one key, write it back
UpdateLastId(d, key, value) == DumpData([LoadData(d) EXCEPT ![key] = value])

\* SaveData without the cut to max_twoots
SaveDataNoCut(d, tw) == DumpData([d.data EXCEPT !.twoots = tw \o d.data.twoots])

\* SaveData that writes the data loaded by __init__ instead of re-reading the file
SaveDataLoaded(d, tw) == DumpData([data EXCEPT !.twoots = FirstN(tw \o data.twoots, max_twoots)])

\* __save_data: the twoots of this run in front of the file's, cut to max_twoots
SaveData(d, tw) == DumpData([d.data EXCEPT !.twoots = FirstN(tw \o d.data.twoots, max_twoots)])

\* ------------------------------------------------------------------ Init

\* The data files a first invocation can find: none; one with the accounts
\* cached and the marker seeded by an earlier run; one that also holds a
\* twoot, a mapping history the profile has kept (distinct toot ids, at
\* most max_twoots entries).
InitDisks ==
    { [isfile |-> FALSE, data |-> NoData] }
    \cup
    { DumpData([last_toot |-> 1, last_tweet |-> 0, twoots |-> h,
                mastodon_account |-> TRUE, twitter_account |-> TRUE]) :
        h \in { s \in {<<>>, <<Twoot(1, FirstTweetId)>>} : Len(s) <= max_twoots } }

\* no text has been assembled: the lengths of toot_text, of toot_links (the
\* first URL) and of toot_reduced (the text without its URLs), then the
\* length of toot_sliced, whether it ends in "..." and the parts of the text
NoText == [toot_text |-> 0, toot_links |-> 0, toot_reduced |-> 0,
           toot_sliced |-> 0, ellipsis |-> FALSE, assembled |-> <<>>]

\* the shortest match of "https?://[^\s]+": "http://" and one character
MinLinkLen == 8

\* The texts the truncation step is given, by their lengths: toot_reduced of
\* 0..MaxReducedLen characters and either no URL (toot_links 0) or one URL
\* of MinLinkLen..MaxLinkLen characters; toot_text is the two together.
Texts ==
    { [NoText EXCEPT !.toot_reduced = b, !.toot_links = l, !.toot_text = b + l] :
        b \in 0..MaxReducedLen, l \in {0} \cup MinLinkLen..MaxLinkLen }

\* string_len: 253, "hacked down another 23 chars if there is another link"
StringLen(toot_links) == IF toot_links > 0 THEN 253 - 23 ELSE 253

\* the length of s[:n]
SliceLen(s, n) == IF s < n THEN s ELSE n

\* lines 575-578: toot_sliced is toot_reduced[:string_len] + "..." when
\* len(toot_text) > string_len and toot_reduced otherwise; the text is
\* f"{toot_sliced} {toot_links} {toot['url']}"
AssembleText(t) ==
    LET string_len == StringLen(t.toot_links)
        cut == t.toot_text > string_len
    IN  [t EXCEPT !.toot_sliced = IF cut THEN SliceLen(t.toot_reduced, string_len) + 3
                                  ELSE t.toot_reduced,
                  !.ellipsis = cut,
                  !.assembled = <<"toot_sliced", " ", "toot_links", " ", "url">>]

Init ==
    /\ disk \in InitDisks
    /\ lock = FALSE
    /\ pc = "idle"
    /\ runs = 0
    /\ dry_run = FALSE
    /\ update = FALSE
    /\ data = NoData
    /\ twoots = <<>>
    /\ toots = <<>>
    /\ i = 0
    /\ new_last_id = 0
    /\ fetched = "no"
    /\ calls = <<>>
    /\ next_id = FirstTweetId + 1
    /\ pre = OnDisk(disk)
    /\ result = "none"
    /\ setup = FALSE
    /\ contender = "none"
    /\ text = NoText

\* ------------------------------------------------- main() and __init__

\* both accounts are cached in the data file: __init__ verifies nothing
AccountsCached(d) == LoadData(d).mastodon_account /\ LoadData(d).twitter_account

\* Construct that starts from the initial data although a data file exists
ConstructFresh(d) == [NoData EXCEPT !.mastodon_account = TRUE, !.twitter_account = TRUE]

\* self.data at the end of __init__: the loaded data with both accounts
Construct(d) == [LoadData(d) EXCEPT !.mastodon_account = TRUE, !.twitter_account = TRUE]

\* SelfSetup that keeps the argument
SelfSetupKept(s) == s

\* self.setup after __init__(profile, setup): "self.setup = False"
SelfSetup(s) == FALSE

\* dry_run after the first lines of run(): setup mode switches --dry-run off
RunDryRun(n, s) == IF n /\ SelfSetup(s) THEN FALSE ELSE n

\* what every invocation starts from: the memory of a new process
NewProcess ==
    /\ twoots' = <<>>
    /\ toots' = <<>>
    /\ i' = 0
    /\ new_last_id' = 0
    /\ fetched' = "no"
    /\ calls' = <<>>
    /\ pre' = OnDisk(disk)
    /\ runs' = runs + 1
    /\ contender' = "none"

\* Flock that never finds the lock held
FlockAlways(held) == TRUE

\* fcntl.flock(f, LOCK_EX | LOCK_NB) on the lock file: TRUE when the lock is
\* taken, FALSE when it raises because another process holds it
Flock(held) == ~held

\* main() with --setup = s takes the lock, Twoot.__init__ loads the data,
\* caches the accounts and saves the data anyway; run() is entered
Invoke(s) ==
    /\ pc = "idle"
    /\ Flock(lock)
    /\ runs < MaxRuns
    /\ \E n \in BOOLEAN, u \in BOOLEAN :
         /\ dry_run' = RunDryRun(n, s)
         /\ update' = u
    /\ setup' = s
    /\ NewProcess
    /\ lock' = TRUE
    /\ data' = Construct(disk)
    /\ disk' = DumpData(Construct(disk))
    /\ pc' = "get_new_toots"
    /\ result' = "running"
    /\ UNCHANGED <<next_id, text>>

\* an invocation without --setup
Main == Invoke(FALSE)

\* an invocation with --setup
MainSetup == Invoke(TRUE)

\* a verify_credentials call of __init__ raises: nothing is saved, the
\* exception leaves main() and the process ends
InvokeVerifyRaises(s) ==
    /\ pc = "idle"
    /\ Flock(lock)
    /\ runs < MaxRuns
    /\ ~AccountsCached(disk)
    /\ \E n \in BOOLEAN, u \in BOOLEAN :
         /\ dry_run' = n
         /\ update' = u
    /\ setup' = s
    /\ NewProcess
    /\ data' = LoadData(disk)
    /\ result' = "raised"
    /\ UNCHANGED <<disk, lock, pc, next_id, text>>

\* without --setup
MainVerifyRaises == InvokeVerifyRaises(FALSE)

\* with --setup
MainSetupVerifyRaises == InvokeVerifyRaises(TRUE)

\* ------------------------------------------------------- get_new_toots

\* WritesMarker without the dry-run test
WritesMarkerAlways(n, u) == TRUE

\* WritesMarker that forgets --update
WritesMarkerNotDry(n, u) == ~n

\* "if not dry_run or update": the marker is written unless the run is a
\* dry run without --update
WritesMarker(n, u) == ~n \/ u

\* Res that hands the seeding fetch to the caller
ResAlways(last_id, r) == r

\* res: r when there was a last toot id, [] when the toots were fetched
\* "only for updating last_toot"
Res(last_id, r) == IF last_id # 0 THEN r ELSE <<>>

\* NewLastId that takes the oldest toot of the list
NewLastIdOldest(r) == r[Len(r)].id

\* new_last_id = r[0]["id"]: "r[0] is the latest"
NewLastId(r) == r[1].id

\* get_new_toots when account_statuses returned r
Fetch(r) ==
    /\ toots' = Res(data.last_toot, r)
    /\ i' = IF SelfSetup(setup) THEN 0 ELSE Len(Res(data.last_toot, r))
    /\ fetched' = IF Len(r) > 0 THEN "toots" ELSE "empty"
    /\ new_last_id' = IF Len(r) > 0 THEN NewLastId(r) ELSE 0
    /\ disk' = IF Len(r) > 0 /\ WritesMarker(dry_run, update)
               THEN UpdateLastId(disk, "last_toot", NewLastId(r))
               ELSE disk
    /\ pc' = "toots2tweets"
    /\ UNCHANGED <<lock, runs, dry_run, update, data, twoots, calls, next_id, pre, result,
                   setup, contender, text>>

\* account_statuses returned r: any list of toots of the account
GetNewToots ==
    /\ pc = "get_new_toots"
    /\ \E r \in Batches : Fetch(r)

\* r is what the API documents for since_id = last_id: newest first, no
\* toot twice, and only toots newer than last_id when one was given
IsSince(last_id, r) ==
    /\ \A k \in 1..Len(r) : last_id # 0 => r[k].id > last_id
    /\ \A j, k \in 1..Len(r) : j < k => r[j].id > r[k].id

\* account_statuses(my_id, since_id=last_id) returned r as documented
GetNewTootsSince ==
    /\ pc = "get_new_toots"
    /\ \E r \in Batches : IsSince(data.last_toot, r) /\ Fetch(r)

\* GetNewTootsRaises without the try of get_new_toots: the exception of
\* account_statuses ends the process
GetNewTootsRaisesUncaught ==
    /\ pc = "get_new_toots"
    /\ toots' = <<>>
    /\ i' = 0
    /\ fetched' = "raised"
    /\ pc' = "idle"
    /\ lock' = FALSE
    /\ result' = "raised"
    /\ UNCHANGED <<disk, runs, dry_run, update, data, twoots, new_last_id,
                   calls, next_id, pre, setup, contender, text>>

\* account_statuses raised: the exception is logged, res = [] is returned
GetNewTootsRaises ==
    /\ pc = "get_new_toots"
    /\ toots' = <<>>
    /\ i' = 0
    /\ fetched' = "raised"
    /\ pc' = "toots2tweets"
    /\ UNCHANGED <<disk, lock, runs, dry_run, update, data, twoots, new_last_id,
                   calls, next_id, pre, result, setup, contender, text>>

\* ------------------------------------------------------ the mapping history

\* History without the twoots of this run
HistoryLoaded == data.twoots

\* self.twoots + self.data["twoots"]: this run's twoots, then the loaded ones
History == twoots \o data.twoots

\* synced_toots of create_tweet_from_toot
synced_toots == TootIdsOf(History)

\* FindPairedTweet that answers with the toot's own id
FindPairedTweetSource(toot_id) == toot_id

\* __find_paired_tweet: the tweet_id of the first twoot of toot_id, 0 for None
FindPairedTweet(toot_id) ==
    IF toot_id \in synced_toots
    THEN History[CHOOSE k \in 1..Len(History) :
                    /\ History[k].toot_id = toot_id
                    /\ \A j \in 1..(k - 1) : History[j].toot_id # toot_id].tweet_id
    ELSE 0

\* StoreTwoot that pairs the toot with its own id
StoreTwootSelf(tw, toot_id, tweet_id) == <<Twoot(toot_id, toot_id)>> \o tw

\* __store_twoot: self.twoots.insert(0, twoot)
StoreTwoot(tw, toot_id, tweet_id) == <<Twoot(toot_id, tweet_id)>> \o tw

\* ----------------------------------------------------- the Twitter calls

\* One call of the Twitter client.  op: "update" (statuses.update),
\* "retweet" (statuses.retweet) or "upload" (media.upload); toot: the toot
\* being processed; target: in_reply_to_status_id, the retweeted id or the
\* attachment's index (0 for None); media: media_ids; ok: the call returned;
\* id: the id of the tweet it returned (0 when it raised, and for an upload).
Call(op, toot, target, media, ok, id) ==
    [op |-> op, toot |-> toot, target |-> target, media |-> media, ok |-> ok, id |-> id]

\* ------------------------------------------------ create_tweet_from_toot

\* the toot of this step of "for t in reversed(toots)"
toot == toots[i]

InLoop == pc = "toots2tweets" /\ i > 0

\* AlreadyForwarded that looks at this run's twoots only
AlreadyForwardedThisRun(t) == t.id \in TootIdsOf(twoots)

\* the toot is already forwarded
AlreadyForwarded(t) == t.id \in synced_toots

\* ReplyForOthers without the test
ReplyForOthersNever(t) == FALSE

\* the toot is a reply to another account
ReplyForOthers(t) == t.in_reply_to_account_id # "none" /\ t.in_reply_to_account_id # "me"

\* in_reply_to_toot_id: the parent of a self reply, 0 for None
InReplyToTootId(t) == IF t.in_reply_to_account_id = "me" THEN t.in_reply_to_id ELSE 0

\* the step leaves everything but the loop position as it is
NextToot ==
    /\ i' = i - 1
    /\ UNCHANGED <<disk, lock, pc, runs, dry_run, update, data, toots,
                   new_last_id, fetched, pre, result, setup, contender, text>>

\* an exception no handler catches leaves toots2tweets, run() and main()
\* (main() catches IOError only): the process ends, the lock is released
Raise ==
    /\ pc' = "idle"
    /\ lock' = FALSE
    /\ result' = "raised"
    /\ UNCHANGED <<disk, runs, dry_run, update, data, toots, i, new_last_id, fetched, pre,
                   setup, contender, text>>

\* "skip if already forwarded"
SkipForwarded ==
    /\ InLoop
    /\ AlreadyForwarded(toot)
    /\ NextToot
    /\ UNCHANGED <<twoots, calls, next_id>>

\* "skip reply for other users"
SkipReplyForOthers ==
    /\ InLoop
    /\ ~AlreadyForwarded(toot)
    /\ ReplyForOthers(toot)
    /\ NextToot
    /\ UNCHANGED <<twoots, calls, next_id>>

\* the toot reaches the "BT case"
ReachesBoostCase(t) == ~AlreadyForwarded(t) /\ ~ReplyForOthers(t)

\* a boost of a synced toot in a dry run: the retweet is logged only
RetweetDry ==
    /\ InLoop
    /\ ReachesBoostCase(toot)
    /\ toot.reblog # 0
    /\ toot.reblog \in synced_toots
    /\ dry_run
    /\ NextToot
    /\ UNCHANGED <<twoots, calls, next_id>>

\* a boost of a synced toot: __retweet on the paired tweet; the twoot is
\* stored when the call returned
Retweet ==
    /\ InLoop
    /\ ReachesBoostCase(toot)
    /\ toot.reblog # 0
    /\ toot.reblog \in synced_toots
    /\ ~dry_run
    /\ \E ok \in BOOLEAN :
         /\ calls' = Append(calls, Call("retweet", toot.id, FindPairedTweet(toot.reblog),
                                        <<>>, ok, IF ok THEN next_id ELSE 0))
         /\ twoots' = IF ok THEN StoreTwoot(twoots, toot.id, next_id) ELSE twoots
         /\ next_id' = IF ok THEN next_id + 1 ELSE next_id
    /\ NextToot

\* a boost of a toot that is not synced is skipped
SkipBoost ==
    /\ InLoop
    /\ ReachesBoostCase(toot)
    /\ toot.reblog # 0
    /\ toot.reblog \notin synced_toots
    /\ NextToot
    /\ UNCHANGED <<twoots, calls, next_id>>

\* the toot reaches "treat media": a normal toot or a self reply
ReachesTweet(t) == ReachesBoostCase(t) /\ t.reblog = 0

\* a normal toot or a self reply in a dry run: nothing is uploaded, the
\* text is assembled and logged
TweetDry ==
    /\ InLoop
    /\ ReachesTweet(toot)
    /\ dry_run
    /\ toot.url
    /\ NextToot
    /\ UNCHANGED <<twoots, calls, next_id>>

\* re.search(...) finds no URL in the text: None.group raises AttributeError
\* (in a dry run too, after the uploads of a real run)
TweetDryNoUrlRaises ==
    /\ InLoop
    /\ ReachesTweet(toot)
    /\ dry_run
    /\ ~toot.url
    /\ Raise
    /\ UNCHANGED <<twoots, calls, next_id>>

\* What __post_media_to_twitter does with one attachment: "uploaded" (the
\* upload returned a media dict), "upload_raised" (an upload call raised:
\* logged, None), "unknown_type" (neither image nor gifv: None) or
\* "download_failed" (__download_image / __download_video returned None,
\* and unpacking None into two names raises TypeError outside the try).
MediaOutcomes == {"uploaded", "upload_raised", "unknown_type", "download_failed"}

\* the outcomes of the attachments of t, in order
MediaRuns(t) == [1..t.media -> MediaOutcomes]

\* the first attachment whose download failed, 0 when none did
FirstDownloadFailed(outs) ==
    IF \E k \in DOMAIN outs : outs[k] = "download_failed"
    THEN CHOOSE k \in DOMAIN outs :
            /\ outs[k] = "download_failed"
            /\ \A j \in 1..(k - 1) : outs[j] # "download_failed"
    ELSE 0

\* the attachments __post_media_to_twitter is called for and returns from
Relayed(outs) ==
    IF FirstDownloadFailed(outs) = 0 THEN Len(outs) ELSE FirstDownloadFailed(outs) - 1

\* 1, 2, ..., n
Indices(n) == [k \in 1..n |-> k]

\* the media.upload calls made for the first n attachments
UploadCalls(t, outs, n) ==
    LET called(k) == outs[k] \in {"uploaded", "upload_raised"}
        ks == SelectSeq(Indices(n), called)
    IN  [j \in 1..Len(ks) |-> Call("upload", t.id, ks[j], <<>>, outs[ks[j]] = "uploaded", 0)]

\* media_ids: the attachments whose upload returned
MediaIds(outs) ==
    LET returned(k) == outs[k] = "uploaded"
    IN  SelectSeq(Indices(Len(outs)), returned)

\* in_reply_to_status_id of the tweet: the paired tweet of the parent when
\* the parent is synced, None (0) otherwise
InReplyToId(t) ==
    IF InReplyToTootId(t) \in synced_toots THEN FindPairedTweet(InReplyToTootId(t)) ELSE 0

\* a download fails: TypeError leaves the list comprehension after the
\* uploads of the attachments before it
TweetMediaRaises ==
    /\ InLoop
    /\ ReachesTweet(toot)
    /\ ~dry_run
    /\ \E outs \in MediaRuns(toot) :
         /\ FirstDownloadFailed(outs) # 0
         /\ calls' = calls \o UploadCalls(toot, outs, Relayed(outs))
    /\ Raise
    /\ UNCHANGED <<twoots, next_id>>

\* the media are relayed, then re.search finds no URL and raises
TweetNoUrlRaises ==
    /\ InLoop
    /\ ReachesTweet(toot)
    /\ ~dry_run
    /\ ~toot.url
    /\ \E outs \in MediaRuns(toot) :
         /\ FirstDownloadFailed(outs) = 0
         /\ calls' = calls \o UploadCalls(toot, outs, Relayed(outs))
    /\ Raise
    /\ UNCHANGED <<twoots, next_id>>

\* The media are relayed, the text is assembled, __tweet is called (as a
\* reply when the parent is synced) and the twoot is stored when it
\* returned.  The last statement of the "if not dry_run" block,
\* self.create_toot_from_tweet(t, dry_run), then raises AttributeError:
\* Twoot has no such method.
Tweet ==
    /\ InLoop
    /\ ReachesTweet(toot)
    /\ ~dry_run
    /\ toot.url
    /\ \E outs \in MediaRuns(toot), ok \in BOOLEAN :
         /\ FirstDownloadFailed(outs) = 0
         /\ calls' = calls \o UploadCalls(toot, outs, Relayed(outs))
                           \o <<Call("update", toot.id, InReplyToId(toot), MediaIds(outs),
                                     ok, IF ok THEN next_id ELSE 0)>>
         /\ twoots' = IF ok THEN StoreTwoot(twoots, toot.id, next_id) ELSE twoots
         /\ next_id' = IF ok THEN next_id + 1 ELSE next_id
    /\ Raise

\* ------------------------------------------------------- the end of run()

\* the loop is over: __save_data when this run stored a twoot; run() and
\* main() return and the lock is released
Finish ==
    /\ pc = "toots2tweets"
    /\ i = 0
    /\ disk' = IF Len(twoots) > 0 THEN SaveData(disk, twoots) ELSE disk
    /\ pc' = "idle"
    /\ lock' = FALSE
    /\ result' = "returned"
    /\ UNCHANGED <<runs, dry_run, update, data, twoots, toots, i, new_last_id,
                   fetched, calls, next_id, pre, setup, contender, text>>

\* ------------------------------------------------------ the specification

\* the steps of run(): the fetch, the loop over the batch, the end
RunSteps ==
    \/ GetNewToots
    \/ GetNewTootsRaises
    \/ SkipForwarded
    \/ SkipReplyForOthers
    \/ RetweetDry
    \/ Retweet
    \/ SkipBoost
    \/ TweetDry
    \/ TweetDryNoUrlRaises
    \/ TweetMediaRaises
    \/ TweetNoUrlRaises
    \/ Tweet
    \/ Finish

Next ==
    \/ Main
    \/ MainVerifyRaises
    \/ GetNewToots
    \/ GetNewTootsRaises
    \/ SkipForwarded
    \/ SkipReplyForOthers
    \/ RetweetDry
    \/ Retweet
    \/ SkipBoost
    \/ TweetDry
    \/ TweetDryNoUrlRaises
    \/ TweetMediaRaises
    \/ TweetNoUrlRaises
    \/ Tweet
    \/ Finish

Spec == Init /\ [][Next]_vars

\* ------------------------------------------- a data file that can fail

\* account_statuses returned r and __update_last_id raised (the read or the
\* write of the data file failed, nothing was written): the call is inside
\* the try of get_new_toots, "except Exception" logs "Failed to get new
\* toots", and res, already set, is returned
GetNewTootsUpdateRaises ==
    /\ pc = "get_new_toots"
    /\ WritesMarker(dry_run, update)
    /\ \E r \in Batches :
         /\ Len(r) > 0
         /\ toots' = Res(data.last_toot, r)
         /\ i' = IF SelfSetup(setup) THEN 0 ELSE Len(Res(data.last_toot, r))
         /\ new_last_id' = NewLastId(r)
    /\ fetched' = "update_raised"
    /\ pc' = "toots2tweets"
    /\ UNCHANGED <<disk, lock, runs, dry_run, update, data, twoots, calls, next_id, pre,
                   result, setup, contender, text>>

\* __save_data raised at the end of run() (nothing was written).  The
\* exception leaves run(); an IOError (OSError of open, read or write) is
\* caught by the "except IOError" of main(), which logs "Process already
\* exists" at debug level and returns; any other exception (of pickle) ends
\* the process with a traceback.
FinishSaveRaises ==
    /\ pc = "toots2tweets"
    /\ i = 0
    /\ Len(twoots) > 0
    /\ \E e \in {"IOError", "other"} :
         result' = IF e = "IOError" THEN "logged" ELSE "raised"
    /\ pc' = "idle"
    /\ lock' = FALSE
    /\ UNCHANGED <<disk, runs, dry_run, update, data, twoots, toots, i, new_last_id,
                   fetched, calls, next_id, pre, setup, contender, text>>

NextIO ==
    \/ Next
    \/ GetNewTootsUpdateRaises
    \/ FinishSaveRaises

SpecIO == Init /\ [][NextIO]_vars

\* ------------------------------------ a Mastodon that honours since_id

\* The invocations of Next with an account_statuses that returns what the
\* API documents.  No fetched toot is in the mapping history then, and
\* "skip if already forwarded" is never taken.
NextSince ==
    \/ Main
    \/ MainVerifyRaises
    \/ GetNewTootsSince
    \/ GetNewTootsRaises
    \/ SkipReplyForOthers
    \/ RetweetDry
    \/ Retweet
    \/ SkipBoost
    \/ TweetDry
    \/ TweetDryNoUrlRaises
    \/ TweetMediaRaises
    \/ TweetNoUrlRaises
    \/ Tweet
    \/ Finish

SpecSince == Init /\ [][NextSince]_vars

\* ---------------------------------------------- the text of a tweet alone

\* a rendered text waits for the truncation step
InitText ==
    /\ text \in Texts
    /\ disk = [isfile |-> FALSE, data |-> NoData]
    /\ lock = FALSE
    /\ pc = "idle"
    /\ runs = 0
    /\ dry_run = FALSE
    /\ update = FALSE
    /\ data = NoData
    /\ twoots = <<>>
    /\ toots = <<>>
    /\ i = 0
    /\ new_last_id = 0
    /\ fetched = "no"
    /\ calls = <<>>
    /\ next_id = FirstTweetId + 1
    /\ pre = OnDisk(disk)
    /\ result = "none"
    /\ setup = FALSE
    /\ contender = "none"

\* lines 565-578 for a text with a URL
Assemble ==
    /\ text.assembled = <<>>
    /\ text.toot_links > 0
    /\ text' = AssembleText(text)
    /\ UNCHANGED <<disk, lock, pc, runs, dry_run, update, data, twoots, toots, i,
                   new_last_id, fetched, calls, next_id, pre, result, setup, contender>>

\* line 565 for a text without a URL: re.search returns None, .group raises
AssembleRaises ==
    /\ text.assembled = <<>>
    /\ text.toot_links = 0
    /\ text' = [text EXCEPT !.assembled = <<"AttributeError">>]
    /\ UNCHANGED <<disk, lock, pc, runs, dry_run, update, data, twoots, toots, i,
                   new_last_id, fetched, calls, next_id, pre, result, setup, contender>>

NextText ==
    \/ Assemble
    \/ AssembleRaises

SpecText == InitText /\ [][NextText]_vars

\* ------------------------------------------------- overlapping invocations

\* main() is started while an invocation is between its flock and its exit:
\* flock raises IOError (LOCK_NB: no waiting), "except IOError" logs
\* "Process already exists", and main() returns without having constructed
\* a Twoot.  Were the lock taken, the invocation would be inside as well.
MainLockHeld ==
    /\ pc # "idle"
    /\ runs < MaxRuns
    /\ runs' = runs + 1
    /\ contender' = IF Flock(lock) THEN "inside" ELSE "refused"
    /\ UNCHANGED <<disk, lock, pc, dry_run, update, data, twoots, toots, i,
                   new_last_id, fetched, calls, next_id, pre, result, setup, text>>

\* invocations may overlap
NextLock ==
    \/ Next
    \/ MainLockHeld

SpecLock == Init /\ [][NextLock]_vars

\* every invocation is started with --setup
NextSetup ==
    \/ MainSetup
    \/ MainSetupVerifyRaises
    \/ RunSteps

SpecSetup == Init /\ [][NextSetup]_vars

\* ------------------------------------------------------------ the claims

\* a call that creates a tweet or a retweet
IsMirrorCall(c) == c.op \in {"update", "retweet"}

\* an invocation has ended (run() returned or an exception ended the process)
Ended == pc = "idle" /\ result \in {"returned", "raised"}

\* C1: at-most-once mirroring.  No two entries of the mapping history (this
\* run's twoots followed by the loaded ones) or of the data file have the
\* same toot id, and no tweet or retweet call is made for a toot whose id
\* is already in the history: not for one the data file held when the run
\* started, not for one an earlier call of this run was stored for.
AtMostOnceMirroring ==
    /\ DistinctToots(twoots \o data.twoots)
    /\ DistinctToots(disk.data.twoots)
    /\ \A k \in 1..Len(calls) :
         IsMirrorCall(calls[k]) =>
            /\ calls[k].toot \notin TootIdsOf(pre.twoots)
            /\ \A j \in 1..(k - 1) :
                 (IsMirrorCall(calls[j]) /\ calls[j].ok) => calls[j].toot # calls[k].toot

\* C1's case: the second run's batch holds the same boost twice, and the
\* boost of a toot mirrored in the first run; the older copy is retweeted,
\* the newer one skipped, and the saved history holds its id once
AtMostOnceWitness ==
    /\ runs = 2
    /\ result = "returned"
    /\ Len(toots) = 2
    /\ toots[1].id = toots[2].id
    /\ Len(calls) = 1
    /\ calls[1].op = "retweet"
    /\ calls[1].ok
    /\ Len(pre.twoots) = 2
    /\ Cardinality({k \in 1..Len(disk.data.twoots) :
                       disk.data.twoots[k].toot_id = toots[1].id}) = 1

\* C2: persistence of successful mirrors.  When a real run has ended, every
\* toot whose tweet or retweet call returned has its twoot (toot id, the
\* returned id) in the data file, if it is among the max_twoots newest.
PersistenceOfMirrors ==
    (Ended /\ ~dry_run) =>
        LET done == SelectSeq(calls, LAMBDA c : IsMirrorCall(c) /\ c.ok)
        IN  \A k \in 1..Len(done) :
               (Len(done) - k + 1 <= max_twoots) =>
                   \E j \in 1..Len(disk.data.twoots) :
                       disk.data.twoots[j] = Twoot(done[k].toot, done[k].id)

\* C3: idempotence.  In a run that follows another one and whose fetch
\* returned no toots, no Twitter call is made, no twoot is stored and the
\* markers and the mapping history of the data file are as before the run.
Idempotence ==
    (runs >= 2 /\ fetched = "empty") =>
        /\ calls = <<>>
        /\ twoots = <<>>
        /\ OnDisk(disk) = pre

\* C3's case: a first run stored and saved a twoot and advanced the marker,
\* the second run fetched nothing and returned
IdempotenceWitness ==
    /\ runs = 2
    /\ fetched = "empty"
    /\ result = "returned"
    /\ pre.last_toot > 1
    /\ \E k \in 1..Len(pre.twoots) : pre.twoots[k].tweet_id > FirstTweetId

\* C4: dry-run non-mutation.  In a run with --dry-run and without --update
\* no Twitter call is made, no twoot is stored and last_toot, last_tweet
\* and the mapping history of the data file stay as they were.
DryRunNonMutation ==
    (runs > 0 /\ dry_run /\ ~update) =>
        /\ calls = <<>>
        /\ twoots = <<>>
        /\ OnDisk(disk) = pre

\* C4's case: a pure dry run classified a normal toot with an attachment
\* and then a boost of a synced toot, and returned
DryRunWitness ==
    /\ dry_run
    /\ ~update
    /\ result = "returned"
    /\ fetched = "toots"
    /\ Len(toots) = 2
    /\ toots[2].reblog = 0
    /\ toots[2].in_reply_to_account_id = "none"
    /\ toots[2].media > 0
    /\ toots[2].id \notin TootIdsOf(pre.twoots)
    /\ toots[1].reblog \in TootIdsOf(pre.twoots)
    /\ toots[1].in_reply_to_account_id = "none"
    /\ toots[1].id \notin TootIdsOf(pre.twoots)

\* C5: oldest-first thread linking.  A real run fetched <<child, parent>>
\* (newest first): parent a normal toot, child a self reply to it, neither
\* in the history, both with a URL in the text, the child without media.
\* When the run has ended and the parent's tweet was created, a tweet for
\* the child was requested after it, as a reply to the parent's tweet.
ThreadLinking ==
    (/\ Ended
     /\ ~dry_run
     /\ Len(toots) = 2
     /\ toots[2].in_reply_to_account_id = "none"
     /\ toots[2].reblog = 0
     /\ toots[2].url
     /\ toots[1].in_reply_to_account_id = "me"
     /\ toots[1].in_reply_to_id = toots[2].id
     /\ toots[1].reblog = 0
     /\ toots[1].url
     /\ toots[1].media = 0
     /\ toots[1].id \notin TootIdsOf(pre.twoots)
     /\ toots[2].id \notin TootIdsOf(pre.twoots)
     /\ \E k \in 1..Len(calls) :
          calls[k].op = "update" /\ calls[k].toot = toots[2].id /\ calls[k].ok)
    => \E k, j \in 1..Len(calls) :
          /\ k < j
          /\ calls[k].op = "update" /\ calls[k].toot = toots[2].id /\ calls[k].ok
          /\ calls[j].op = "update" /\ calls[j].toot = toots[1].id
          /\ calls[j].target = calls[k].id

\* C6: retention cap.  The data file never holds more than max_twoots
\* twoots, and after a run that saved (it returned with twoots of its own)
\* the file's history is the first max_twoots entries of this run's twoots
\* followed by the history the file held before.
RetentionCap ==
    /\ Len(disk.data.twoots) <= max_twoots
    /\ (pc = "idle" /\ result = "returned" /\ Len(twoots) > 0) =>
          /\ Len(disk.data.twoots) = IF Len(twoots) + Len(pre.twoots) < max_twoots
                                     THEN Len(twoots) + Len(pre.twoots)
                                     ELSE max_twoots
          /\ \A k \in 1..Len(disk.data.twoots) :
                disk.data.twoots[k] = (twoots \o pre.twoots)[k]

\* C6's case: twoots accumulated over two runs exceed max_twoots; the save
\* of the second run dropped the oldest and kept the newest, newest first
RetentionWitness ==
    /\ runs = 2
    /\ pc = "idle"
    /\ result = "returned"
    /\ Len(twoots) > 0
    /\ Len(pre.twoots) = max_twoots
    /\ pre.twoots[1].tweet_id > FirstTweetId
    /\ Len(disk.data.twoots) = max_twoots
    /\ disk.data.twoots[1] = twoots[1]
    /\ disk.data.twoots[max_twoots] # pre.twoots[max_twoots]

\* C7 as stated: when no last_toot was persisted and the fetch returned
\* toots, nothing is handed to the loop, no call is made, no twoot is
\* stored, and the persisted last_toot is the id of the newest fetched toot.
FirstRunSeeding ==
    (data.last_toot = 0 /\ fetched = "toots") =>
        /\ toots = <<>>
        /\ calls = <<>>
        /\ twoots = <<>>
        /\ disk.data.last_toot = new_last_id

\* C7, amended: as FirstRunSeeding, but the marker becomes the newest id
\* only when the run is not a dry run without --update; in such a dry run
\* it stays absent.
FirstRunSeedingUnlessDry ==
    (data.last_toot = 0 /\ fetched = "toots") =>
        /\ toots = <<>>
        /\ calls = <<>>
        /\ twoots = <<>>
        /\ disk.data.last_toot = IF ~dry_run \/ update THEN new_last_id ELSE 0

\* C7's case: a real first run on a profile without marker fetched toots,
\* seeded the marker with the newest id, and returned
FirstRunSeedingWitness ==
    /\ pre.last_toot = 0
    /\ ~dry_run
    /\ fetched = "toots"
    /\ result = "returned"
    /\ new_last_id > 0
    /\ disk.data.last_toot = new_last_id
    /\ toots = <<>>

\* C8: marker advancement.  After a fetch that returned toots the persisted
\* last_toot is the newest fetched id when the run is real or has --update,
\* and the marker of before the run otherwise (so, for a newest id other
\* than the old marker, it equals the newest id iff not dry_run or update);
\* a dry run with --update makes no call and stores no twoot; a fetch that
\* returned nothing leaves the marker as it was.
MarkerAdvancement ==
    /\ fetched = "toots" =>
          /\ disk.data.last_toot = IF ~dry_run \/ update THEN new_last_id ELSE pre.last_toot
          /\ new_last_id # pre.last_toot =>
                ((disk.data.last_toot = new_last_id) <=> (~dry_run \/ update))
    /\ (runs > 0 /\ dry_run /\ update) => (calls = <<>> /\ twoots = <<>>)
    /\ fetched = "empty" => disk.data.last_toot = pre.last_toot

\* C8's case: a dry run with --update fetched and classified toots, moved
\* the marker to the newest id, and returned
MarkerAdvancementWitness ==
    /\ dry_run
    /\ update
    /\ fetched = "toots"
    /\ result = "returned"
    /\ Len(toots) > 0
    /\ pre.last_toot # 0
    /\ new_last_id # pre.last_toot
    /\ disk.data.last_toot = new_last_id

\* C9: self-boost repost linking.  Each step of a real run on a toot that
\* reaches the boost case (not forwarded yet, no reply to another account)
\* and boosts a toot of the mapping history appends exactly one call: a
\* retweet of the tweet id the history pairs with the boosted toot, which
\* is no toot id; makes no update or upload call; and stores the twoot
\* (boosting toot, returned id) when and only when the call returned.
SelfBoostLinking ==
    [][ (/\ pc = "toots2tweets"
         /\ i > 0
         /\ ~dry_run
         /\ toots[i].id \notin TootIdsOf(twoots \o data.twoots)
         /\ toots[i].in_reply_to_account_id \in {"none", "me"}
         /\ toots[i].reblog \in TootIdsOf(twoots \o data.twoots))
        => /\ Len(calls') = Len(calls) + 1
           /\ SubSeq(calls', 1, Len(calls)) = calls
           /\ LET c == calls'[Len(calls')]
              IN  /\ c.op = "retweet"
                  /\ c.toot = toots[i].id
                  /\ c.target \notin TootIds
                  /\ \E k \in 1..Len(twoots \o data.twoots) :
                        (twoots \o data.twoots)[k] = Twoot(toots[i].reblog, c.target)
                  /\ twoots' = IF c.ok THEN <<Twoot(toots[i].id, c.id)>> \o twoots ELSE twoots
                  /\ c.ok => c.id \notin TootIds
           /\ i' = i - 1
           /\ pc' = "toots2tweets" ]_vars

\* C9's case: a real run retweeted the paired tweet of a boosted toot that
\* was mirrored before, stored the twoot of the boost, and saved it
SelfBoostWitness ==
    /\ result = "returned"
    /\ ~dry_run
    /\ Len(toots) = 1
    /\ toots[1].reblog \in TootIdsOf(pre.twoots)
    /\ Len(calls) = 1
    /\ calls[1].op = "retweet"
    /\ calls[1].ok
    /\ \E k \in 1..Len(pre.twoots) :
          pre.twoots[k] = Twoot(toots[1].reblog, calls[1].target)
    /\ twoots = <<Twoot(toots[1].id, calls[1].id)>>
    /\ disk.data.twoots[1] = Twoot(toots[1].id, calls[1].id)

\* C10: failure isolation per post.  When a real run has ended in which a
\* tweet or retweet call failed (every toot of the batch with a URL in its
\* text and without media), the run returned and the loop reached the end
\* of the batch, and no twoot pairs the toot of a failed call with an id
\* that call returned.
FailureIsolation ==
    (/\ Ended
     /\ ~dry_run
     /\ \A k \in 1..Len(toots) : toots[k].url /\ toots[k].media = 0
     /\ \E k \in 1..Len(calls) : IsMirrorCall(calls[k]) /\ ~calls[k].ok)
    => /\ result = "returned"
       /\ i = 0
       /\ Len(twoots) = Cardinality({k \in 1..Len(calls) : IsMirrorCall(calls[k]) /\ calls[k].ok})

\* C11: a failed fetch is an empty batch.  In a run whose account_statuses
\* call raised, get_new_toots handed an empty list to the loop, the run has
\* not raised (it is running or has returned), no call was made, no twoot
\* was stored, and the data file is what it was when the run started, the
\* marker included: the next run asks for the toots since the same marker.
FetchFailureIsEmptyBatch ==
    fetched = "raised"
    => /\ toots = <<>>
       /\ i = 0
       /\ result \in {"running", "returned"}
       /\ calls = <<>>
       /\ twoots = <<>>
       /\ OnDisk(disk) = pre
       /\ data.last_toot = pre.last_toot

\* C11 happens: the fetch of a second run raised, the run returned, and the
\* marker an earlier run advanced is still in the data file
FetchFailureWitness ==
    /\ runs = 2
    /\ fetched = "raised"
    /\ pc = "idle"
    /\ result = "returned"
    /\ pre.last_toot > 1
    /\ disk.data.last_toot = pre.last_toot

\* the toot the loop of this run takes first: the oldest of the batch
first_toot == toots[Len(toots)]

\* the toot is neither a boost nor a reply to somebody else, and its id was
\* not in the data file when the run started: the loop takes it to the
\* media and text steps
IsNewPlainToot(t) ==
    /\ t.reblog = 0
    /\ t.in_reply_to_account_id # "other"
    /\ t.id \notin TootIdsOf(pre.twoots)

\* C12: a text without a URL.  When a run has ended whose first toot is a
\* plain toot or a self reply with no http(s) URL in its text and no media,
\* then a dry run returned with the loop at the end of the batch, and a
\* real run made the statuses.update call for that toot.
MissingUrlTolerated ==
    (/\ Ended
     /\ Len(toots) > 0
     /\ IsNewPlainToot(first_toot)
     /\ ~first_toot.url
     /\ first_toot.media = 0)
    => /\ dry_run => (result = "returned" /\ i = 0)
       /\ ~dry_run => \E k \in 1..Len(calls) :
                         calls[k].op = "update" /\ calls[k].toot = first_toot.id

\* the attachments of toot id whose media.upload call returned, in order
UploadedFor(id, n) ==
    LET returned(j) == \E c \in 1..Len(calls) :
                          /\ calls[c].op = "upload"
                          /\ calls[c].toot = id
                          /\ calls[c].target = j
                          /\ calls[c].ok
    IN  SelectSeq(Indices(n), returned)

\* C13: the media relay tolerates the failure of one attachment.  When a
\* real run has ended whose first toot is a plain toot or a self reply with
\* a URL in its text and several attachments, the statuses.update call for
\* that toot was made, with exactly the media ids of the attachments whose
\* upload returned.
MediaRelayTolerant ==
    (/\ Ended
     /\ ~dry_run
     /\ Len(toots) > 0
     /\ IsNewPlainToot(first_toot)
     /\ first_toot.url
     /\ first_toot.media > 1)
    => \E k \in 1..Len(calls) :
          /\ calls[k].op = "update"
          /\ calls[k].toot = first_toot.id
          /\ calls[k].media = UploadedFor(first_toot.id, first_toot.media)

\* C14: setup mode does not mirror.  In a run started with --setup no
\* statuses.update, retweet or media.upload call is made and no twoot is
\* stored.
SetupDoesNotMirror ==
    setup => (calls = <<>> /\ twoots = <<>>)

\* C15: single-instance exclusivity.  The lock is held exactly while an
\* invocation is between its flock and its exit, and an invocation started
\* meanwhile is never inside with it; the step of an invocation that finds
\* the lock held refuses it at once and leaves the data file, the calls,
\* the twoots, the fetched batch, the running invocation and the lock as
\* they are.
SingleInstance ==
    /\ [](contender # "inside" /\ (lock <=> pc # "idle"))
    /\ [][(pc # "idle" /\ runs' = runs + 1)
           => /\ contender' = "refused"
              /\ UNCHANGED <<disk, lock, pc, data, twoots, toots, i, new_last_id,
                             fetched, calls, next_id, result>>]_vars

\* C15 happens: an invocation was refused after the running one had made a
\* call, and the running one went on to save its twoot and return
SingleInstanceWitness ==
    /\ contender = "refused"
    /\ pc = "idle"
    /\ result = "returned"
    /\ Len(calls) > 0
    /\ Len(twoots) > 0
    /\ disk.data.twoots[1] = twoots[1]

\* C16: the truncation rule.  In an assembled text the budget is 253, and
\* 230 when a URL was extracted; toot_sliced ends in "..." exactly when
\* toot_reduced (the text without the URL) is longer than the budget, it is
\* then the first budget characters of toot_reduced and the ellipsis, and
\* it is toot_reduced unchanged otherwise; the text is toot_sliced, a
\* space, the URL, a space and the permalink.
TruncationRule ==
    (text.assembled # <<>> /\ text.assembled # <<"AttributeError">>)
    => LET budget == IF text.toot_links > 0 THEN 230 ELSE 253
       IN  /\ text.ellipsis <=> text.toot_reduced > budget
           /\ text.toot_reduced > budget => text.toot_sliced = budget + 3
           /\ text.toot_reduced <= budget => text.toot_sliced = text.toot_reduced
           /\ text.assembled = <<"toot_sliced", " ", "toot_links", " ", "url">>

\* C17: no retry after the marker has advanced.  With an account_statuses
\* that honours since_id: every toot a run hands to the loop, calls for or
\* stores a twoot for is newer than the marker the data file held when the
\* run started; once a real run has fetched toots, the marker in the data
\* file is the newest id of the batch, not older than any toot of it, in
\* every state from the fetch on (so before the first call); the marker
\* never goes back; and a toot not newer than the marker of the start has
\* a twoot in the data file only if it had one at the start.  A toot that a
\* real run fetched and did not map is therefore never fetched, tried or
\* mapped again.
NoRetry ==
    /\ \A k \in 1..Len(toots) : toots[k].id > pre.last_toot
    /\ \A k \in 1..Len(calls) : calls[k].toot > pre.last_toot
    /\ \A k \in 1..Len(twoots) : twoots[k].toot_id > pre.last_toot
    /\ (fetched = "toots" /\ ~dry_run)
       => /\ disk.data.last_toot = new_last_id
          /\ \A k \in 1..Len(toots) : toots[k].id <= disk.data.last_toot
    /\ disk.data.last_toot >= pre.last_toot
    /\ \A id \in TootIdsOf(disk.data.twoots) :
          id <= pre.last_toot => id \in TootIdsOf(pre.twoots)
    /\ InLoop => ~AlreadyForwarded(toot)

\* C17 happens: an earlier run advanced the marker to toot 2 and left it
\* without a twoot; this real run fetched toot 3 only and called for it
NoRetryWitness ==
    /\ runs = 2
    /\ ~dry_run
    /\ pre.last_toot = 2
    /\ 2 \notin TootIdsOf(pre.twoots)
    /\ fetched = "toots"
    /\ Len(toots) = 1
    /\ Len(calls) > 0
    /\ calls[1].toot = 3
    /\ Ended

\* C18: storage failures are fatal.  When the marker update of
\* get_new_toots failed, the run has ended with an error and no toot of the
\* batch was processed (the loop has not moved, no call, no twoot); and no
\* run ends by only logging the failure of its end-of-run save.
StorageFailuresFatal ==
    /\ fetched = "update_raised"
       => /\ result = "raised"
          /\ i = Len(toots)
          /\ calls = <<>>
          /\ twoots = <<>>
    /\ result # "logged"

\* C19: the two write paths do not clobber each other.  The step of
\* get_new_toots leaves the twoots, last_tweet and the account records of
\* the data file as they are; the step that ends run() leaves last_toot,
\* last_tweet and the account records as they are on disk then, and puts
\* the twoots of the run in front of the file's; so when a run that wrote
\* the marker has returned, the marker in the file is the newest id it
\* fetched, not the one loaded at the start.
WritePathsDisjoint ==
    /\ []((pc = "idle" /\ result = "returned" /\ fetched = "toots"
            /\ WritesMarker(dry_run, update))
           => disk.data.last_toot = new_last_id)
    /\ [][/\ (pc = "get_new_toots" /\ pc' = "toots2tweets")
             => /\ disk'.data.twoots = disk.data.twoots
                /\ disk'.data.last_tweet = disk.data.last_tweet
                /\ disk'.data.mastodon_account = disk.data.mastodon_account
                /\ disk'.data.twitter_account = disk.data.twitter_account
          /\ (pc = "toots2tweets" /\ pc' = "idle")
             => /\ disk'.data.last_toot = disk.data.last_toot
                /\ disk'.data.last_tweet = disk.data.last_tweet
                /\ disk'.data.mastodon_account = disk.data.mastodon_account
                /\ disk'.data.twitter_account = disk.data.twitter_account
                /\ (result' = "returned" /\ Len(twoots) > 0)
                   => /\ disk'.data.twoots[1] = twoots[1]
                      /\ TootIdsOf(disk'.data.twoots) \subseteq
                            TootIdsOf(twoots) \cup TootIdsOf(disk.data.twoots)]_vars

\* C19 happens: a real run advanced the marker, stored a twoot and returned;
\* the file holds the new marker, the new twoot and the twoot it held before
WritePathsWitness ==
    /\ pc = "idle"
    /\ result = "returned"
    /\ ~dry_run
    /\ fetched = "toots"
    /\ new_last_id > pre.last_toot
    /\ disk.data.last_toot = new_last_id
    /\ Len(twoots) = 1
    /\ Len(pre.twoots) = 1
    /\ disk.data.twoots = twoots \o pre.twoots

\* C20: skip classification.  The step of the loop for a toot that is a
\* reply to another account, or a boost of a toot whose id is not in the
\* mapping history, makes no call and stores no twoot, writes nothing and
\* goes on to the next toot, in a dry run and in a real one; this holds for
\* a reply to another account that boosts a synced toot as well (the reply
\* test comes first).
SkipClassification ==
    [][(/\ pc = "toots2tweets"
        /\ i > 0
        /\ \/ toots[i].in_reply_to_account_id = "other"
           \/ (toots[i].reblog # 0
               /\ toots[i].reblog \notin TootIdsOf(twoots \o data.twoots)))
       => /\ calls' = calls
          /\ twoots' = twoots
          /\ next_id' = next_id
          /\ disk' = disk
          /\ i' = i - 1
          /\ pc' = pc]_vars

\* C20 happens: a real run has returned without a call or a twoot from a
\* batch of two new toots, the older a boost of a toot that is not synced,
\* the newer a reply to another account that boosts a synced toot
SkipClassificationWitness ==
    /\ pc = "idle"
    /\ result = "returned"
    /\ ~dry_run
    /\ Len(toots) = 2
    /\ toots[1].id \notin TootIdsOf(pre.twoots)
    /\ toots[1].in_reply_to_account_id = "other"
    /\ toots[1].reblog \in TootIdsOf(pre.twoots)
    /\ toots[2].id \notin TootIdsOf(pre.twoots)
    /\ toots[2].in_reply_to_account_id = "none"
    /\ toots[2].reblog # 0
    /\ toots[2].reblog \notin TootIdsOf(pre.twoots)
    /\ i = 0
    /\ calls = <<>>
    /\ twoots = <<>>

\* the tweet id the first twoot of toot id in h pairs it with, 0 when h has
\* no twoot of it
PairedIn(h, id) ==
    IF \E k \in 1..Len(h) : h[k].toot_id = id
    THEN h[CHOOSE k \in 1..Len(h) :
              /\ h[k].toot_id = id
              /\ \A j \in 1..(k - 1) : h[j].toot_id # id].tweet_id
    ELSE 0

ReturnedMirrorCalls == {c \in 1..Len(calls) : IsMirrorCall(calls[c]) /\ calls[c].ok}

\* C22: mappings reflect real destination actions.  With an
\* account_statuses that lists a toot once: no toot has two tweet or
\* retweet calls in a run; every twoot of the run pairs a toot with the id
\* a returned tweet or retweet call for that toot gave, no toot has two
\* twoots, and the run has no more twoots than returned tweet and retweet
\* calls.  A step of the loop makes at most one tweet or retweet call, as
\* its last call and for the toot of the step, and stores a twoot only of
\* that call, when it returned.
MappingsReflectCalls ==
    /\ [](/\ \A j, k \in 1..Len(calls) :
              (j < k /\ IsMirrorCall(calls[j]) /\ IsMirrorCall(calls[k]))
              => calls[j].toot # calls[k].toot
          /\ \A k \in 1..Len(twoots) :
              \E c \in ReturnedMirrorCalls :
                 /\ calls[c].toot = twoots[k].toot_id
                 /\ calls[c].id = twoots[k].tweet_id
          /\ DistinctToots(twoots)
          /\ Len(twoots) <= Cardinality(ReturnedMirrorCalls))
    /\ [][pc = "toots2tweets"
          => LET new == {k \in (Len(calls) + 1)..Len(calls') : IsMirrorCall(calls'[k])}
             IN  /\ Cardinality(new) <= 1
                 /\ \A k \in new : k = Len(calls') /\ i > 0 /\ calls'[k].toot = toots[i].id
                 /\ \/ twoots' = twoots
                    \/ \E k \in new :
                          /\ calls'[k].ok
                          /\ calls'[k].id # 0
                          /\ twoots' = <<Twoot(calls'[k].toot, calls'[k].id)>> \o twoots]_vars

\* C22 happens: a real run made two retweet calls, the first raised and the
\* second returned, and its only twoot is that of the second
MappingsWitness ==
    /\ Ended
    /\ ~dry_run
    /\ Len(calls) = 2
    /\ calls[1].op = "retweet"
    /\ ~calls[1].ok
    /\ calls[2].op = "retweet"
    /\ calls[2].ok
    /\ calls[1].toot # calls[2].toot
    /\ twoots = <<Twoot(calls[2].toot, calls[2].id)>>

====
